---------------------------- MODULE Spec2Model ----------------------------
(***************************************************************************)
(* A model of the adns resolution engine: the zone matcher and answer      *)
(* synthesizer (dnsHandler.match, ServeDNS.handleLocal), the answer cache  *)
(* with its eviction sweep (clearCache), the forwarder (dnsHandler.resolve)*)
(* and the upstream health monitor (dnsHandler.watch).                     *)
(*                                                                         *)
(* Strings are sequences of one-character strings, so that Contains,       *)
(* Split, TrimSuffix and ParseIP are computed as the Go library computes   *)
(* them.                                                                   *)
(***************************************************************************)
EXTENDS Integers, Sequences, FiniteSets, TLC

(***************************************************************************)
(* Bounds of the model.                                                    *)
(***************************************************************************)
\* records of the first configured domain
MaxRecords == 2
\* the clock stops after this many ticks
MaxTime == 5
\* the count of clients out of the pool is kept up to this number
MaxHeld == 2

(***************************************************************************)
(* Time.  The wall clock advances in ticks of half a second;               *)
(* time.Now().Unix() is the clock truncated to whole seconds.              *)
(***************************************************************************)
TicksPerSecond == 1 + 1
\* time.Sleep(time.Second * 10) of the eviction loop, in seconds
SweepSeconds == 10
Unix(t) == t \div TicksPerSecond

(***************************************************************************)
(* Go string library, as used by the handler.                              *)
(***************************************************************************)
\* strings.Contains(s, substr)
Contains(s, sub) ==
    \E i \in 0..(Len(s) - Len(sub)) : SubSeq(s, i + 1, i + Len(sub)) = sub

\* index of the first occurrence of the one-character separator, 0 if none
IndexOf(s, c) ==
    IF \E i \in 1..Len(s) : s[i] = c
    THEN CHOOSE i \in 1..Len(s) : s[i] = c /\ \A j \in 1..(i - 1) : s[j] # c
    ELSE 0

\* strings.Split(s, sep) for a one-character separator
RECURSIVE Split(_, _)
Split(s, c) ==
    LET i == IndexOf(s, c)
    IN  IF i = 0 THEN <<s>>
        ELSE <<SubSeq(s, 1, i - 1)>> \o Split(SubSeq(s, i + 1, Len(s)), c)

\* strings.TrimSuffix(s, ".")
TrimSuffixDot(s) ==
    IF Len(s) > 0 /\ s[Len(s)] = "." THEN SubSeq(s, 1, Len(s) - 1) ELSE s

\* fmt.Sprintf("%s.%s.", a, b)
SprintfName(a, b) == a \o <<".">> \o b \o <<".">>

(***************************************************************************)
(* net.ParseIP on dotted-quad text (the value alphabet holds no ':').      *)
(* A parsed address is its four octets in canonical decimal; nil is <<>>.  *)
(***************************************************************************)
Digits == {"0", "1", "2", "3", "4", "5", "6", "7", "8", "9"}

DigitVal(c) ==
    CASE c = "0" -> 0 [] c = "1" -> 1 [] c = "2" -> 2 [] c = "3" -> 3
      [] c = "4" -> 4 [] c = "5" -> 5 [] c = "6" -> 6 [] c = "7" -> 7
      [] c = "8" -> 8 [] c = "9" -> 9

RECURSIVE DecVal(_)
DecVal(f) ==
    IF Len(f) = 0 THEN 0
    ELSE 10 * DecVal(SubSeq(f, 1, Len(f) - 1)) + DigitVal(f[Len(f)])

OctetOk(f) ==
    /\ Len(f) \in 1..3
    /\ \A i \in 1..Len(f) : f[i] \in Digits
    /\ (Len(f) > 1 => f[1] # "0")
    /\ DecVal(f) <= 255

NilIP == <<>>

ParseIP(s) ==
    LET fs == Split(s, ".")
    IN  IF Len(fs) = 4 /\ \A i \in 1..4 : OctetOk(fs[i]) THEN fs ELSE NilIP

(***************************************************************************)
(* DNS type codes (github.com/miekg/dns) and the handler's typeMap.        *)
(***************************************************************************)
TypeA == 1
\* dns.TypeNS, a type the handler does not support
TypeNS == TypeA + 1
TypeCNAME == 5
TypeMX == 15
TypeTXT == 16
TypeAAAA == 28
TypeHTTPS == 65

typeMap ==
    [t \in {"A", "AAAA", "TXT", "CNAME", "MX", "HTTPS"} |->
        CASE t = "A" -> TypeA [] t = "AAAA" -> TypeAAAA [] t = "TXT" -> TypeTXT
          [] t = "CNAME" -> TypeCNAME [] t = "MX" -> TypeMX [] t = "HTTPS" -> TypeHTTPS]

\* the keys of typeMapRev, built by init()
typeMapRev == {typeMap[t] : t \in DOMAIN typeMap}

(***************************************************************************)
(* Configuration (Config, Domain, Record) and the inputs drawn from it.    *)
(***************************************************************************)
Rec(n, t, v, ttl, p) == [Name |-> n, Type |-> t, Value |-> v, TTL |-> ttl, Preference |-> p]

IP1234 == <<"1", ".", "2", ".", "3", ".", "4">>
IP5678 == <<"5", ".", "6", ".", "7", ".", "8">>

\* records a domain may be configured with
RecordPool ==
    { Rec(<<"w">>, "A", IP1234, 300, 0),
      Rec(<<"w">>, "A", <<"1", ".", "2">>, 200, 0),
      Rec(<<"w">>, "AAAA", IP1234, 310, 0),
      Rec(<<"w">>, "CNAME", <<"t", ".", "c">>, 60, 0),
      Rec(<<"w">>, "MX", <<"m", ".", "c", ".">>, 320, 10),
      Rec(<<"w">>, "HTTPS", <<"h", "2", ",", "h", "3">>, 330, 0),
      Rec(<<"w">>, "TXT", <<"v">>, 340, 0),
      Rec(<<"w">>, "SRV", <<"v">>, 350, 0),
      Rec(<<"*">>, "A", IP5678, 61, 0),
      Rec(<<"*">>, "CNAME", <<"t", ".", "c", ".">>, 120, 0),
      Rec(<<"*", "w">>, "A", IP5678, 30, 0),
      Rec(<<"w", ".", "b">>, "A", IP1234, 90, 0) }

\* records of the second configured domain
SecondPool ==
    { Rec(<<"w">>, "A", IP5678, 400, 0),
      Rec(<<"w">>, "CNAME", <<"t", ".", "c">>, 410, 0),
      Rec(<<"*">>, "A", IP5678, 420, 0),
      Rec(<<"*">>, "MX", <<"m", ".", "c", ".">>, 430, 20) }

RECURSIVE SeqsUpTo(_, _)
SeqsUpTo(S, n) ==
    IF n = 0 THEN {<<>>}
    ELSE LET shorter == SeqsUpTo(S, n - 1)
         IN  shorter \cup {Append(s, x) : s \in shorter, x \in S}

DomC == <<"c">>
DomBC == <<"b", ".", "c">>

Dom(n, rs) == [Name |-> n, Records |-> rs]

\* two domains, one name a substring of the other, in both orders
DomainLists ==
    { <<Dom(n[1], r1), Dom(n[2], r2)>> :
        n \in {<<DomC, DomBC>>, <<DomBC, DomC>>},
        r1 \in SeqsUpTo(RecordPool, MaxRecords),
        r2 \in SeqsUpTo(SecondPool, 1) }

Question(n, t) == [Name |-> n, Qtype |-> t]

QueryNames ==
    { <<"w", ".", "c", ".">>, <<"x", ".", "c", ".">>, <<"x", "w", ".", "c", ".">>,
      <<"w", ".", "b", ".", "c", ".">>, <<"*", ".", "c", ".">>, <<"w", ".", "d", ".">> }

Questions ==
    { Question(n, t) : n \in QueryNames, t \in {TypeA, TypeCNAME, TypeNS} }
    \cup { Question(<<"w", ".", "c", ".">>, t) : t \in {TypeAAAA, TypeMX, TypeTXT, TypeHTTPS} }

VARIABLES
    cfgDomains,   \* h.cfg.Domains
    cfgServers,   \* h.cfg.Servers
    inbox,        \* the messages clients send in this run
    conns,        \* the connections on which they arrive, one ServeDNS call each
    question,     \* the question last handed to match / handleLocal
    matched,      \* what match returned for it
    localAns,     \* the records handleLocal built for it
    clock,        \* the wall clock, in ticks
    cache,        \* the package-level cache: cacheKey -> cacheItem
    pc,           \* where each ServeDNS call stands
    msg,          \* r.Question of the message each call serves
    qi,           \* the question of the message being handled
    si,           \* resolve's position in its server loop
    answer,       \* msg.Answer of the reply being assembled
    qlog,         \* per question handled: what the call did for it
    held,         \* clients taken by h.pool.Get() and not handed to h.pool.Put, up to MaxHeld
    swPc,         \* where the eviction loop stands
    swNow,        \* clearCache's now
    swStart,      \* the tick at which the last clearCache began (-1: none yet)
    swKeys,       \* the keys cache.Range has still to visit
    swKey,        \* the key the Range callback is about to delete
    swWake,       \* the tick at which the eviction loop's sleep ends
    upstream,     \* h.upstream: the servers the forwarder ranges over
    failed,       \* upstream.failed of each configured server
    demoted,      \* the servers watch has deleted from h.upstream and not stored since
    wi,           \* watch's position in its list of upstreams (0: between rounds)
    rkeys         \* per call: the servers resolve's Range has still to visit

matchVars == <<question, matched, localAns>>
cfgVars == <<cfgDomains, cfgServers, inbox, conns>>
serveVars == <<pc, msg, qi, si, answer, qlog, held>>
sweepVars == <<swPc, swNow, swStart, swKeys, swKey, swWake>>
upVars == <<upstream, failed, demoted, wi, rkeys>>
vars == <<cfgVars, matchVars, clock, cache, serveVars, sweepVars, upVars>>

(***************************************************************************)
(* dnsHandler.match                                                        *)
(***************************************************************************)
NotMatched == [d |-> 0, r |-> 0]

\* a name test that takes the piece before the wildcard token
NameMatchPrefix(r, d, q) ==
    LET qName == SprintfName(r.Name, d.Name)
    IN  IF qName # q.Name
        THEN IF ~Contains(r.Name, <<"*">>)
             THEN FALSE
             ELSE LET tmp == Split(r.Name, "*")
                      suffix == SprintfName(tmp[1], d.Name)
                  IN  Contains(q.Name, suffix)
        ELSE TRUE

\* the name test of one record: lines 118-133
NameMatch(r, d, q) ==
    LET qName == SprintfName(r.Name, d.Name)
    IN  IF qName # q.Name
        THEN IF ~Contains(r.Name, <<"*">>)
             THEN FALSE
             ELSE LET tmp == Split(r.Name, "*")
                      rName == IF Len(tmp) > 1 THEN tmp[2] ELSE <<>>
                      suffix == SprintfName(rName, d.Name)
                  IN  Contains(q.Name, suffix)
        ELSE TRUE

\* a fallback condition that leaves A, AAAA and MX queries out
IsSameConj(t, q) ==
    (q.Qtype # TypeA /\ q.Qtype # TypeAAAA /\ q.Qtype # TypeMX) /\ t = TypeCNAME

\* the CNAME fallback condition: line 142
IsSame(t, q) ==
    (q.Qtype # TypeA \/ q.Qtype # TypeAAAA \/ q.Qtype # TypeMX) /\ t = TypeCNAME

\* whether the record loop returns this record: lines 118-145
RecordReturns(r, d, q) ==
    /\ NameMatch(r, d, q)
    /\ r.Type \in DOMAIN typeMap
    /\ (typeMap[r.Type] = q.Qtype \/ IsSame(typeMap[r.Type], q))

\* the record loop, from record j on: 0 when no record of the domain returns
RECURSIVE MatchRecords(_, _, _)
MatchRecords(d, j, q) ==
    IF j > Len(d.Records) THEN 0
    ELSE IF RecordReturns(d.Records[j], d, q) THEN j
    ELSE MatchRecords(d, j + 1, q)

\* whether the domain loop enters the record loop: lines 110-116
DomainCandidate(d, q) ==
    /\ Contains(q.Name, d.Name)
    /\ q.Qtype \in typeMapRev

\* the domain loop, from domain i on
RECURSIVE MatchDomains(_, _, _)
MatchDomains(ds, i, q) ==
    IF i > Len(ds) THEN NotMatched
    ELSE IF DomainCandidate(ds[i], q) /\ MatchRecords(ds[i], 1, q) # 0
         THEN [d |-> i, r |-> MatchRecords(ds[i], 1, q)]
         ELSE MatchDomains(ds, i + 1, q)

\* a domain loop in which the last answering domain wins
MatchLastDomain(ds, q) ==
    LET S == {i \in 1..Len(ds) : DomainCandidate(ds[i], q) /\ MatchRecords(ds[i], 1, q) # 0}
    IN  IF S = {} THEN NotMatched
        ELSE LET i == CHOOSE x \in S : \A y \in S : y <= x
             IN  [d |-> i, r |-> MatchRecords(ds[i], 1, q)]

\* match(question): the place of the record returned, NotMatched for the error
Match(ds, q) == MatchDomains(ds, 1, q)

RecordAt(ds, m) == ds[m.d].Records[m.r]

(***************************************************************************)
(* ServeDNS.handleLocal: the answer synthesizer.                           *)
(* A resource record is its header (Name, Rrtype, Ttl) and its data: the   *)
(* octets of an address (NilIP when net.ParseIP failed), the CNAME target, *)
(* the MX exchange with its Preference, or the ALPN protocol list.         *)
(***************************************************************************)
RR(n, t, ttl, p, data) == [Name |-> n, Rrtype |-> t, Ttl |-> ttl, Pref |-> p, Data |-> data]

\* the switch on typeMap[r.Type]: the records built for a matched record
Synthesize(r, q) ==
    LET t == typeMap[r.Type]
    IN  CASE t = TypeA -> <<RR(q.Name, TypeA, r.TTL, 0, ParseIP(r.Value))>>
          [] t = TypeAAAA -> <<RR(q.Name, TypeAAAA, r.TTL, 0, ParseIP(r.Value))>>
          [] t = TypeMX -> <<RR(q.Name, TypeMX, r.TTL, r.Preference, <<r.Value>>)>>
          [] t = TypeCNAME ->
                <<RR(q.Name, TypeCNAME, r.TTL, 0, <<TrimSuffixDot(r.Value) \o <<".">>>>)>>
          [] t = TypeHTTPS -> <<RR(<<".">>, TypeHTTPS, 0, 0, Split(r.Value, ","))>>
          [] OTHER -> <<>>

\* whether the switch reaches a case that builds a record
Synthesizes(r) == typeMap[r.Type] \in {TypeA, TypeAAAA, TypeMX, TypeCNAME, TypeHTTPS}

\* handleLocal of handler.go: the records it appends to msg.Answer
HandleLocalAnswers(ds, q) ==
    LET m == Match(ds, q)
    IN  IF m = NotMatched THEN <<>> ELSE Synthesize(RecordAt(ds, m), q)

\* handleLocal of handler.go: its return value, line 159 and line 199
HandleLocalOk(ds, q) == FALSE

(***************************************************************************)
(* The serving configuration, the messages received and what an upstream   *)
(* may send back.                                                          *)
(***************************************************************************)
Workers == {"w1", "w2"}

ServeDomains == << Dom(DomC, << Rec(<<"w">>, "A", IP1234, 300, 0) >>) >>

ServeServers == <<"s1", "s2">>

\* answered from the zone
QLocal == Question(<<"w", ".", "c", ".">>, TypeA)
\* matched by no domain
QForward == Question(<<"w", ".", "d", ".">>, TypeA)

\* what the clients of one run keep asking
Inboxes == { {<<QForward>>}, {<<QLocal>>}, {<<QForward, QLocal>>} }

\* the connections of a run: messages of several questions arrive on one
\* connection, messages of one question on two connections at a time
ConnsFor(in) == IF \E m \in in : Len(m) > 1 THEN {"w1"} ELSE Workers

UpIP(last) == << <<"9">>, <<"9">>, <<"9">>, <<last>> >>

\* the answer sections an upstream may return for a question
UpstreamAnswers(q) ==
    { <<>>,
      << RR(q.Name, q.Qtype, 1, 0, UpIP("1")) >>,
      << RR(q.Name, q.Qtype, 2, 0, UpIP("2")) >> }

\* c.Exchange: a transport error or timeout, or a reply with its answer section
Outcomes(q) ==
    { [err |-> TRUE, ans |-> <<>>] } \cup { [err |-> FALSE, ans |-> a] : a \in UpstreamAnswers(q) }

(***************************************************************************)
(* The answer cache: cache (sync.Map), cacheItem, clearCache.              *)
(* An item also records the tick at which it was stored and whether its    *)
(* answers came from the forwarder or from the zone.                       *)
(***************************************************************************)
\* fmt.Sprintf("%s-%d", name, qtype)
CacheKey(q) == <<q.Name, q.Qtype>>

EmptyCache == [k \in {} |-> 0]

\* an item that leaves out the first record of the answer
CacheItemTail(ans, now, from) ==
    [expire |-> Unix(now) + ans[1].Ttl, value |-> Tail(ans), at |-> now, src |-> from]

\* cacheItem{expire: time.Now().Unix() + ttl, value: in.Answer}
CacheItem(ans, now, from) ==
    [expire |-> Unix(now) + ans[1].Ttl, value |-> ans, at |-> now, src |-> from]

\* a Load that never finds the key
CacheNeverHit(c, k) == FALSE

\* cache.Load(key): its ok
CacheHit(c, k) == k \in DOMAIN c

\* cache.Store(key, item)
Store(c, k, item) == [x \in DOMAIN c \cup {k} |-> IF x = k THEN item ELSE c[x]]

\* cache.Delete(key)
Delete(c, k) == [x \in DOMAIN c \ {k} |-> c[x]]

\* the callback's test: v.expire < now
Expired(item, now) == item.expire < now

(***************************************************************************)
(* dnsHandler.ServeDNS and dnsHandler.resolve of handler.go.               *)
(***************************************************************************)
LogEntry(q, ds) ==
    [ q |-> q,
      matched |-> Match(ds, q) # NotMatched,  \* match returned a record
      local |-> <<>>,                         \* what handleLocal added to msg.Answer
      forwarded |-> FALSE,                    \* resolve was called
      present |-> FALSE,                      \* the cache held the key when it was read
      tried |-> <<>>,                         \* the exchanges made, in order
      got |-> <<>>,                           \* what resolve returned
      stored |-> FALSE ]                      \* the call stored got in the cache

ServeIdle ==
    /\ pc = [w \in Workers |-> "idle"]
    /\ msg = [w \in Workers |-> <<>>]
    /\ qi = [w \in Workers |-> 0]
    /\ si = [w \in Workers |-> 0]
    /\ answer = [w \in Workers |-> <<>>]
    /\ qlog = [w \in Workers |-> <<>>]

SweepIdle ==
    /\ swPc = "sleep"
    /\ swNow = 0
    /\ swStart = -1
    /\ swKeys = {}
    /\ swKey = <<>>
    /\ swWake = 0

\* resolve is not ranging over h.upstream
NoRange == [cur |-> "", rest |-> {}]

UpIdle ==
    /\ upstream = {}
    /\ failed = [s \in {} |-> 0]
    /\ demoted = {}
    /\ wi = 0
    /\ rkeys = [w \in Workers |-> NoRange]

MatchIdle ==
    /\ question = Question(<<>>, 0)
    /\ matched = NotMatched
    /\ localAns = <<>>

Init ==
    /\ cfgDomains = ServeDomains
    /\ cfgServers = ServeServers
    /\ inbox \in Inboxes
    /\ conns = ConnsFor(inbox)
    /\ MatchIdle
    /\ clock = 0
    /\ cache = EmptyCache
    /\ ServeIdle
    /\ held = 0
    /\ SweepIdle
    /\ UpIdle

\* the transport hands a message to ServeDNS
Receive(w, m) ==
    /\ w \in conns
    /\ pc[w] = "idle"
    /\ pc' = [pc EXCEPT ![w] = "question"]
    /\ msg' = [msg EXCEPT ![w] = m]
    /\ qi' = [qi EXCEPT ![w] = 1]
    /\ si' = [si EXCEPT ![w] = 0]
    /\ answer' = [answer EXCEPT ![w] = <<>>]
    /\ qlog' = [qlog EXCEPT ![w] = <<>>]
    /\ UNCHANGED <<cfgVars, matchVars, clock, cache, sweepVars, upVars, held>>

\* h.pool.Get(): one more client is out of the pool
PoolGet(h) == IF h < MaxHeld THEN h + 1 ELSE h

\* a loop that leaves for w.WriteMsg after its first question
AfterQuestionStop(w) == "write"

\* the loop moves to the next question, or leaves for w.WriteMsg
AfterQuestion(w) == IF qi[w] < Len(msg[w]) THEN "question" ELSE "write"

\* one question up to resolve's cache.Load: handleLocal, then the cached
\* answer on a hit, the server loop on a miss
HandleQuestion(w) ==
    /\ pc[w] = "question"
    /\ LET q == msg[w][qi[w]]
           la == HandleLocalAnswers(cfgDomains, q)
           e == [LogEntry(q, cfgDomains) EXCEPT !.local = la]
           k == CacheKey(q)
       IN  IF HandleLocalOk(cfgDomains, q)
           THEN /\ answer' = [answer EXCEPT ![w] = @ \o la]
                /\ qlog' = [qlog EXCEPT ![w] = Append(@, e)]
                /\ pc' = [pc EXCEPT ![w] = AfterQuestion(w)]
                /\ qi' = [qi EXCEPT ![w] = @ + 1]
                /\ UNCHANGED <<si, held>>
           ELSE IF CacheHit(cache, k)
           THEN /\ answer' = [answer EXCEPT ![w] = @ \o la \o cache[k].value]
                /\ qlog' = [qlog EXCEPT ![w] =
                       Append(@, [e EXCEPT !.forwarded = TRUE, !.present = TRUE,
                                           !.got = cache[k].value])]
                /\ pc' = [pc EXCEPT ![w] = AfterQuestion(w)]
                /\ qi' = [qi EXCEPT ![w] = @ + 1]
                /\ UNCHANGED <<si, held>>
           ELSE IF Len(cfgServers) = 0
           THEN /\ answer' = [answer EXCEPT ![w] = @ \o la]
                /\ qlog' = [qlog EXCEPT ![w] = Append(@, [e EXCEPT !.forwarded = TRUE])]
                /\ pc' = [pc EXCEPT ![w] = AfterQuestion(w)]
                /\ qi' = [qi EXCEPT ![w] = @ + 1]
                /\ held' = PoolGet(held)
                /\ UNCHANGED si
           ELSE /\ answer' = [answer EXCEPT ![w] = @ \o la]
                /\ qlog' = [qlog EXCEPT ![w] = Append(@, [e EXCEPT !.forwarded = TRUE])]
                /\ pc' = [pc EXCEPT ![w] = "exchange"]
                /\ si' = [si EXCEPT ![w] = 1]
                /\ held' = PoolGet(held)
                /\ UNCHANGED qi
    /\ UNCHANGED <<cfgVars, matchVars, clock, cache, msg, sweepVars, upVars>>

\* a resolve that hands its caller the error in place of an answer
ReturnedError(o) == IF o.err THEN <<"error">> ELSE o.ans

\* what resolve returns when its loop ends with this exchange: in.Answer of a
\* reply, []dns.RR{} after an error
Returned(o) == IF o.err THEN <<>> ELSE o.ans

\* one round of resolve's server loop: c.Exchange with cfg.Servers[si] and
\* what follows it
Exchange(w, o) ==
    /\ pc[w] = "exchange"
    /\ LET q == msg[w][qi[w]]
           k == CacheKey(q)
           t == [srv |-> cfgServers[si[w]], err |-> o.err, ans |-> o.ans]
       IN  IF o.err
           THEN \* log and continue; after the last server: return []dns.RR{}
                /\ IF si[w] < Len(cfgServers)
                   THEN /\ qlog' = [qlog EXCEPT ![w][qi[w]].tried = Append(@, t)]
                        /\ si' = [si EXCEPT ![w] = @ + 1]
                        /\ UNCHANGED <<pc, qi, answer>>
                   ELSE /\ qlog' = [qlog EXCEPT ![w][qi[w]] =
                               [@ EXCEPT !.tried = Append(@, t), !.got = Returned(o)]]
                        /\ answer' = [answer EXCEPT ![w] = @ \o Returned(o)]
                        /\ pc' = [pc EXCEPT ![w] = AfterQuestion(w)]
                        /\ qi' = [qi EXCEPT ![w] = @ + 1]
                        /\ si' = [si EXCEPT ![w] = 0]
                /\ UNCHANGED cache
           ELSE \* store a non-empty answer; return in.Answer
                /\ cache' = IF Len(o.ans) > 0
                            THEN Store(cache, k, CacheItem(o.ans, clock, "forward"))
                            ELSE cache
                /\ qlog' = [qlog EXCEPT ![w][qi[w]] =
                       [@ EXCEPT !.tried = Append(@, t), !.got = Returned(o),
                                 !.stored = Len(o.ans) > 0]]
                /\ answer' = [answer EXCEPT ![w] = @ \o Returned(o)]
                /\ pc' = [pc EXCEPT ![w] = AfterQuestion(w)]
                /\ qi' = [qi EXCEPT ![w] = @ + 1]
                /\ si' = [si EXCEPT ![w] = 0]
    /\ UNCHANGED <<cfgVars, matchVars, clock, msg, sweepVars, upVars, held>>

\* w.WriteMsg(msg) hands msg.Answer, complete, to the transport; ServeDNS returns
WriteMsg(w) ==
    /\ pc[w] = "write"
    /\ pc' = [pc EXCEPT ![w] = "idle"]
    /\ msg' = [msg EXCEPT ![w] = <<>>]
    /\ qi' = [qi EXCEPT ![w] = 0]
    /\ answer' = [answer EXCEPT ![w] = <<>>]
    /\ qlog' = [qlog EXCEPT ![w] = <<>>]
    /\ UNCHANGED <<cfgVars, matchVars, clock, cache, si, sweepVars, upVars, held>>

(***************************************************************************)
(* The eviction loop of init(): clearCache, then a sleep of ten seconds.   *)
(* cache.Range visits the keys present when it began, in any order, and    *)
(* hands the callback the value each key holds when it is visited.         *)
(***************************************************************************)
SweepStart ==
    /\ swPc = "sleep"
    /\ clock >= swWake
    /\ swPc' = "range"
    /\ swNow' = Unix(clock)
    /\ swStart' = clock
    /\ swKeys' = DOMAIN cache
    /\ UNCHANGED <<cfgVars, matchVars, clock, cache, serveVars, swKey, swWake, upVars>>

\* the callback up to its test
SweepVisit(k) ==
    /\ swPc = "range"
    /\ k \in swKeys
    /\ swKeys' = swKeys \ {k}
    /\ IF k \in DOMAIN cache /\ Expired(cache[k], swNow)
       THEN swPc' = "delete" /\ swKey' = k
       ELSE UNCHANGED <<swPc, swKey>>
    /\ UNCHANGED <<cfgVars, matchVars, clock, cache, serveVars, swNow, swStart, swWake, upVars>>

\* the callback's cache.Delete(key)
SweepDelete ==
    /\ swPc = "delete"
    /\ cache' = Delete(cache, swKey)
    /\ swPc' = "range"
    /\ swKey' = <<>>
    /\ UNCHANGED <<cfgVars, matchVars, clock, serveVars, swNow, swStart, swKeys, swWake, upVars>>

\* Range returns; the loop sleeps
SweepEnd ==
    /\ swPc = "range"
    /\ swKeys = {}
    /\ swPc' = "sleep"
    /\ swWake' = clock + SweepSeconds * TicksPerSecond
    /\ UNCHANGED <<cfgVars, matchVars, clock, cache, serveVars, swNow, swStart, swKeys, swKey, upVars>>

Tick ==
    /\ clock < MaxTime
    /\ clock' = clock + 1
    /\ UNCHANGED <<cfgVars, matchVars, cache, serveVars, sweepVars, upVars>>

Next ==
    \/ \E w \in Workers, m \in inbox : Receive(w, m)
    \/ \E w \in Workers : HandleQuestion(w)
    \/ \E w \in Workers :
           pc[w] = "exchange" /\ \E o \in Outcomes(msg[w][qi[w]]) : Exchange(w, o)
    \/ \E w \in Workers : WriteMsg(w)
    \/ SweepStart
    \/ \E k \in swKeys : SweepVisit(k)
    \/ SweepDelete
    \/ SweepEnd
    \/ Tick

Spec == Init /\ [][Next]_vars

(***************************************************************************)
(* The revision with the upstream pool: NewHandler starts watch, which     *)
(* probes every configured server and keeps h.upstream; resolve ranges     *)
(* over h.upstream; ServeDNS reads and fills the cache itself.  Time       *)
(* stands still in this specification and a probe round may begin at any   *)
(* moment after the previous one ended; upstream.heatbeat, which is        *)
(* written and never read, is left out.                                    *)
(***************************************************************************)
\* the failure count from which a probed server is taken out of h.upstream
RemoveThreshold == 5
\* the failure count beyond which a server is no longer probed
DeadThreshold == 20

\* upstream.IsDead
IsDead(f) == f > DeadThreshold

\* a removal test that waits for one more failure
ShouldRemoveLate(ok, f) == ok /\ f > RemoveThreshold

\* the probe's test for taking a server out of h.upstream: ok && up.failed >= 5
ShouldRemove(ok, f) == ok /\ f >= RemoveThreshold

\* a pool that starts with every configured server in it
EveryServer == {ServeServers[i] : i \in 1..Len(ServeServers)}

\* NewHandler: upstream: sync.Map{}
InitialUpstream == {}

\* watch's own c := h.pool.Get() is out of the pool from the start
InitUp ==
    /\ cfgDomains = ServeDomains
    /\ cfgServers = ServeServers
    /\ inbox \in Inboxes
    /\ conns = {"w1"}
    /\ MatchIdle
    /\ clock = 0
    /\ cache = EmptyCache
    /\ ServeIdle
    /\ held = 1
    /\ SweepIdle
    /\ upstream = InitialUpstream
    /\ failed = [s \in {cfgServers[i] : i \in 1..Len(cfgServers)} |-> 0]
    /\ demoted = {}
    /\ wi = 0
    /\ rkeys = [w \in Workers |-> NoRange]

\* handleLocal of the pool revision: its second result
UpHandleLocalOk(ds, q) ==
    /\ Match(ds, q) # NotMatched
    /\ Synthesizes(RecordAt(ds, Match(ds, q)))

\* one question up to the first exchange of resolve: the cache.Load, then
\* handleLocal, then, failing both, the start of the Range over h.upstream
UpHandleQuestion(w) ==
    /\ pc[w] = "question"
    /\ LET q == msg[w][qi[w]]
           k == CacheKey(q)
           hit == CacheHit(cache, k)
           cached == IF hit THEN cache[k].value ELSE <<>>
           la == HandleLocalAnswers(cfgDomains, q)
           e == LogEntry(q, cfgDomains)
       IN  IF hit /\ Len(cached) > 0
           THEN /\ answer' = [answer EXCEPT ![w] = @ \o cached]
                /\ qlog' = [qlog EXCEPT ![w] =
                       Append(@, [e EXCEPT !.present = TRUE, !.got = cached])]
                /\ pc' = [pc EXCEPT ![w] = AfterQuestion(w)]
                /\ qi' = [qi EXCEPT ![w] = @ + 1]
                /\ UNCHANGED <<cache, rkeys, held>>
           ELSE IF UpHandleLocalOk(cfgDomains, q)
           THEN /\ answer' = [answer EXCEPT ![w] = @ \o cached \o la]
                /\ qlog' = [qlog EXCEPT ![w] =
                       Append(@, [e EXCEPT !.present = hit, !.local = la,
                                           !.stored = Len(la) > 0])]
                /\ cache' = IF Len(la) > 0
                            THEN Store(cache, k, CacheItem(la, clock, "local"))
                            ELSE cache
                /\ pc' = [pc EXCEPT ![w] = AfterQuestion(w)]
                /\ qi' = [qi EXCEPT ![w] = @ + 1]
                /\ UNCHANGED <<rkeys, held>>
           ELSE IF upstream = {}
           THEN /\ answer' = [answer EXCEPT ![w] = @ \o cached]
                /\ qlog' = [qlog EXCEPT ![w] =
                       Append(@, [e EXCEPT !.present = hit, !.forwarded = TRUE])]
                /\ pc' = [pc EXCEPT ![w] = AfterQuestion(w)]
                /\ qi' = [qi EXCEPT ![w] = @ + 1]
                /\ held' = PoolGet(held)
                /\ UNCHANGED <<cache, rkeys>>
           ELSE /\ answer' = [answer EXCEPT ![w] = @ \o cached]
                /\ qlog' = [qlog EXCEPT ![w] =
                       Append(@, [e EXCEPT !.present = hit, !.forwarded = TRUE])]
                /\ pc' = [pc EXCEPT ![w] = "exchange"]
                /\ \E s \in upstream :
                       rkeys' = [rkeys EXCEPT ![w] = [cur |-> s, rest |-> upstream \ {s}]]
                /\ held' = PoolGet(held)
                /\ UNCHANGED <<cache, qi>>
    /\ UNCHANGED <<cfgVars, matchVars, clock, msg, si, sweepVars, upstream, failed, demoted, wi>>

\* a Range callback that keeps the failure count of the server it exchanged with
ResolveHealthCounting(s, o) ==
    /\ failed' = [failed EXCEPT ![s] = IF o.err THEN @ + 1 ELSE 0]
    /\ UNCHANGED <<upstream, demoted, wi>>

\* what the Range callback does to the health state after its exchange with
\* server s: it writes no field of the upstream and does not touch h.upstream
ResolveHealth(s, o) == UNCHANGED <<upstream, failed, demoted, wi>>

\* the Range callback of resolve for the server being visited: c.Exchange and
\* what follows it, up to the next server or to ServeDNS's cache.Store
UpExchange(w, o) ==
    /\ pc[w] = "exchange"
    /\ LET q == msg[w][qi[w]]
           k == CacheKey(q)
           t == [srv |-> rkeys[w].cur, err |-> o.err, ans |-> o.ans]
           live == rkeys[w].rest \cap upstream
       IN  IF o.err /\ live # {}
           THEN \* return true: Range goes on to a server still in the map
                /\ qlog' = [qlog EXCEPT ![w][qi[w]].tried = Append(@, t)]
                /\ \E s \in live :
                       rkeys' = [rkeys EXCEPT ![w] = [cur |-> s, rest |-> rkeys[w].rest \ {s}]]
                /\ UNCHANGED <<pc, qi, cache, answer>>
           ELSE \* Range ends: resolve returns in, which ServeDNS stores if not empty
                LET in == IF o.err THEN <<>> ELSE o.ans
                IN  /\ qlog' = [qlog EXCEPT ![w][qi[w]] =
                           [@ EXCEPT !.tried = Append(@, t), !.got = in,
                                     !.stored = Len(in) > 0]]
                    /\ cache' = IF Len(in) > 0
                                THEN Store(cache, k, CacheItem(in, clock, "forward"))
                                ELSE cache
                    /\ answer' = [answer EXCEPT ![w] = @ \o in]
                    /\ pc' = [pc EXCEPT ![w] = AfterQuestion(w)]
                    /\ qi' = [qi EXCEPT ![w] = @ + 1]
                    /\ rkeys' = [rkeys EXCEPT ![w] = NoRange]
    /\ ResolveHealth(rkeys[w].cur, o)
    /\ UNCHANGED <<cfgVars, matchVars, clock, msg, si, sweepVars, held>>

\* watch wakes and enters loop()
WatchStart ==
    /\ wi = 0
    /\ Len(cfgServers) > 0
    /\ wi' = 1
    /\ UNCHANGED <<cfgVars, matchVars, clock, cache, serveVars, sweepVars,
                   upstream, failed, demoted, rkeys>>

\* the position after the server at wi: 0 when loop() returns to the sleep
AfterServer == IF wi < Len(cfgServers) THEN wi + 1 ELSE 0

\* loop() passes over a server that IsDead
WatchSkipDead ==
    /\ wi > 0
    /\ IsDead(failed[cfgServers[wi]])
    /\ wi' = AfterServer
    /\ UNCHANGED <<cfgVars, matchVars, clock, cache, serveVars, sweepVars,
                   upstream, failed, demoted, rkeys>>

\* loop() probes the server at wi: the test query and the bookkeeping after
\* it; answered says whether the reply held at least one answer
Probe(answered) ==
    /\ wi > 0
    /\ ~IsDead(failed[cfgServers[wi]])
    /\ LET s == cfgServers[wi]
           ok == s \in upstream
       IN  IF answered
           THEN /\ failed' = [failed EXCEPT ![s] = 0]
                /\ upstream' = upstream \cup {s}
                /\ demoted' = demoted \ {s}
           ELSE /\ failed' = [failed EXCEPT ![s] = @ + 1]
                /\ IF ShouldRemove(ok, failed[s] + 1)
                   THEN upstream' = upstream \ {s} /\ demoted' = demoted \cup {s}
                   ELSE UNCHANGED <<upstream, demoted>>
    /\ wi' = AfterServer
    /\ UNCHANGED <<cfgVars, matchVars, clock, cache, serveVars, sweepVars, rkeys>>

NextUp ==
    \/ \E w \in Workers, m \in inbox : Receive(w, m)
    \/ \E w \in Workers : UpHandleQuestion(w)
    \/ \E w \in Workers :
           pc[w] = "exchange" /\ \E o \in Outcomes(msg[w][qi[w]]) : UpExchange(w, o)
    \/ \E w \in Workers : WriteMsg(w)
    \/ WatchStart
    \/ WatchSkipDead
    \/ \E answered \in BOOLEAN : Probe(answered)

SpecUp == InitUp /\ [][NextUp]_vars

(***************************************************************************)
(* The watch goroutine on its own, no message arriving.  Its loop never    *)
(* ends and its sleep always does, so it always takes its next step.       *)
(***************************************************************************)
InitWatch ==
    /\ cfgDomains = ServeDomains
    /\ cfgServers = ServeServers
    /\ inbox = {}
    /\ conns = {}
    /\ MatchIdle
    /\ clock = 0
    /\ cache = EmptyCache
    /\ ServeIdle
    /\ held = 1
    /\ SweepIdle
    /\ upstream = InitialUpstream
    /\ failed = [s \in {cfgServers[i] : i \in 1..Len(cfgServers)} |-> 0]
    /\ demoted = {}
    /\ wi = 0
    /\ rkeys = [w \in Workers |-> NoRange]

NextWatch ==
    \/ WatchStart
    \/ WatchSkipDead
    \/ \E answered \in BOOLEAN : Probe(answered)

SpecWatch == InitWatch /\ [][NextWatch]_vars /\ WF_vars(NextWatch)

(***************************************************************************)
(* The matcher and the synthesizer applied to one question of one          *)
(* configuration.                                                          *)
(***************************************************************************)
NoQuestion == Question(<<>>, 0)

InitMatch ==
    /\ cfgDomains \in DomainLists
    /\ cfgServers = ServeServers
    /\ inbox = {}
    /\ conns = {}
    /\ MatchIdle
    /\ clock = 0
    /\ cache = EmptyCache
    /\ ServeIdle
    /\ held = 0
    /\ SweepIdle
    /\ UpIdle

\* one question is put to each configuration
Ask(q) ==
    /\ question = NoQuestion
    /\ question' = q
    /\ matched' = Match(cfgDomains, q)
    /\ localAns' = HandleLocalAnswers(cfgDomains, q)
    /\ UNCHANGED <<cfgVars, clock, cache, serveVars, sweepVars, upVars>>

NextMatch == \E q \in Questions : Ask(q)

SpecMatch == InitMatch /\ [][NextMatch]_vars

(***************************************************************************)
(* The matcher's contract, stated on the configuration itself.             *)
(***************************************************************************)
Asked == question # NoQuestion

Places(ds) ==
    UNION { {[d |-> i, r |-> j] : j \in 1..Len(ds[i].Records)} : i \in 1..Len(ds) }

\* iteration order of the two loops
Before(p1, p2) == p1.d < p2.d \/ (p1.d = p2.d /\ p1.r < p2.r)

SupportedTypes == {"A", "AAAA", "TXT", "CNAME", "MX", "HTTPS"}
SupportedQtypes == {TypeA, TypeAAAA, TypeTXT, TypeCNAME, TypeMX, TypeHTTPS}

HasToken(n) == \E i \in 1..Len(n) : n[i] = "*"

\* the text after the wildcard token, up to the next token if there is one
RECURSIVE UpToToken(_)
UpToToken(n) ==
    IF Len(n) = 0 \/ n[1] = "*" THEN <<>> ELSE <<n[1]>> \o UpToToken(Tail(n))

RECURSIVE AfterToken(_)
AfterToken(n) ==
    IF n[1] = "*" THEN UpToToken(Tail(n)) ELSE AfterToken(Tail(n))

WildSuffix(r, d) == AfterToken(r.Name) \o <<".">> \o d.Name \o <<".">>

ExactName(r, d, q) == r.Name \o <<".">> \o d.Name \o <<".">> = q.Name

\* a name match as the zone matcher's contract words it
SpecNameMatch(r, d, q) ==
    \/ ExactName(r, d, q)
    \/ HasToken(r.Name) /\ Contains(q.Name, WildSuffix(r, d))

TypeOf(r) == typeMap[r.Type]

\* the record at place p answers q: a name match of q's type, or of type CNAME
SpecAnswers(ds, p, q) ==
    LET d == ds[p.d]
        r == d.Records[p.r]
    IN  /\ Contains(q.Name, d.Name)
        /\ q.Qtype \in SupportedQtypes
        /\ r.Type \in SupportedTypes
        /\ SpecNameMatch(r, d, q)
        /\ (TypeOf(r) = q.Qtype \/ r.Type = "CNAME")

NoEarlierAnswer(ds, p, q) ==
    \A p0 \in Places(ds) : Before(p0, p) => ~SpecAnswers(ds, p0, q)

\* C2: a query whose name and type are exactly those of a configured record
\* (of type A, AAAA, CNAME, MX, HTTPS or TXT) and which match resolves to that
\* record is answered by one record of that type for the query name, carrying
\* the record's configured TTL.
C2_ExactRecordAnswered ==
    Asked =>
        \A p \in Places(cfgDomains) :
            LET d == cfgDomains[p.d]
                r == d.Records[p.r]
            IN  ( /\ r.Type \in SupportedTypes
                  /\ ExactName(r, d, question)
                  /\ TypeOf(r) = question.Qtype
                  /\ matched = p )
                => /\ Len(localAns) = 1
                   /\ localAns[1].Name = question.Name
                   /\ localAns[1].Rrtype = question.Qtype
                   /\ localAns[1].Ttl = r.TTL

\* C3 as claimed: for a record whose name holds a wildcard token, every query
\* of the record's type that shares the suffix after the token resolves to that
\* record, and no query that does not share it resolves to that record.
C3_WildcardAlwaysResolves ==
    Asked =>
        \A p \in Places(cfgDomains) :
            LET d == cfgDomains[p.d]
                r == d.Records[p.r]
            IN  ( /\ HasToken(r.Name)
                  /\ r.Type \in SupportedTypes
                  /\ TypeOf(r) = question.Qtype )
                => /\ Contains(question.Name, WildSuffix(r, d)) => matched = p
                   /\ ~Contains(question.Name, WildSuffix(r, d)) => matched # p

\* C3 amended: a query of the record's type that shares the suffix after the
\* token resolves to that wildcard record unless an earlier record in
\* iteration order already answers the query; a query that does not share the
\* suffix never resolves to that record.
C3_WildcardResolvesUnlessEarlier ==
    Asked =>
        \A p \in Places(cfgDomains) :
            LET d == cfgDomains[p.d]
                r == d.Records[p.r]
            IN  ( /\ HasToken(r.Name)
                  /\ r.Type \in SupportedTypes
                  /\ TypeOf(r) = question.Qtype )
                => /\ ( /\ Contains(question.Name, WildSuffix(r, d))
                        /\ NoEarlierAnswer(cfgDomains, p, question) ) => matched = p
                   /\ ~Contains(question.Name, WildSuffix(r, d)) => matched # p

\* a wildcard record answers a query that only shares its suffix, although an
\* earlier record of the same domain was scanned first
C3_Witness ==
    /\ Asked
    /\ matched # NotMatched
    /\ matched.r > 1
    /\ HasToken(RecordAt(cfgDomains, matched).Name)
    /\ ~ExactName(RecordAt(cfgDomains, matched), cfgDomains[matched.d], question)
    /\ TypeOf(RecordAt(cfgDomains, matched)) = question.Qtype

\* a record of q's own type name-matches q somewhere in the configuration
ExactTypeExists(ds, q) ==
    \E p \in Places(ds) :
        /\ ds[p.d].Records[p.r].Type \in SupportedTypes
        /\ TypeOf(ds[p.d].Records[p.r]) = q.Qtype
        /\ SpecNameMatch(ds[p.d].Records[p.r], ds[p.d], q)

CnameAt(ds, p, q) ==
    /\ ds[p.d].Records[p.r].Type = "CNAME"
    /\ SpecNameMatch(ds[p.d].Records[p.r], ds[p.d], q)

\* the fallback is taken only when no earlier record was an exact-type match
FallbackOnlyWithoutEarlierExact ==
    ( /\ matched # NotMatched
      /\ TypeOf(RecordAt(cfgDomains, matched)) # question.Qtype )
    => /\ RecordAt(cfgDomains, matched).Type = "CNAME"
       /\ \A p0 \in Places(cfgDomains) :
              Before(p0, matched) =>
                  ~( /\ cfgDomains[p0.d].Records[p0.r].Type \in SupportedTypes
                     /\ TypeOf(cfgDomains[p0.d].Records[p0.r]) = question.Qtype
                     /\ SpecNameMatch(cfgDomains[p0.d].Records[p0.r], cfgDomains[p0.d], question) )

\* C4 as claimed: with no exact-type record for the query name and a CNAME
\* record that name-matches it, match returns the (first such) CNAME record
\* whatever the query type; and the fallback is taken only when no earlier
\* record produced an exact-type match.
C4_FallbackForAnyType ==
    Asked =>
        /\ ( /\ ~ExactTypeExists(cfgDomains, question)
             /\ \E p \in Places(cfgDomains) : CnameAt(cfgDomains, p, question) )
           => /\ matched # NotMatched
              /\ CnameAt(cfgDomains, matched, question)
              /\ \A p0 \in Places(cfgDomains) :
                     Before(p0, matched) => ~CnameAt(cfgDomains, p0, question)
        /\ FallbackOnlyWithoutEarlierExact

\* C4 amended: the same for every query type the handler supports (A, AAAA,
\* TXT, CNAME, MX, HTTPS); a query of any other type matches nothing.
C4_FallbackForSupportedTypes ==
    Asked =>
        /\ ( /\ question.Qtype \in SupportedQtypes
             /\ ~ExactTypeExists(cfgDomains, question)
             /\ \E p \in Places(cfgDomains) : CnameAt(cfgDomains, p, question) )
           => /\ matched # NotMatched
              /\ CnameAt(cfgDomains, matched, question)
              /\ \A p0 \in Places(cfgDomains) :
                     Before(p0, matched) => ~CnameAt(cfgDomains, p0, question)
        /\ (question.Qtype \notin SupportedQtypes => matched = NotMatched)
        /\ FallbackOnlyWithoutEarlierExact

\* an A query is answered by a CNAME record scanned after a record that did
\* not answer it
C4_Witness ==
    /\ Asked
    /\ question.Qtype = TypeA
    /\ matched # NotMatched
    /\ matched.r > 1
    /\ RecordAt(cfgDomains, matched).Type = "CNAME"

ContainingDomains(ds, q) == {i \in 1..Len(ds) : Contains(q.Name, ds[i].Name)}

\* C5 as claimed: the record match returns comes from the first domain in
\* configuration order whose name is contained in the query name.
C5_FirstContainingDomain ==
    (Asked /\ matched # NotMatched) =>
        /\ matched.d \in ContainingDomains(cfgDomains, question)
        /\ \A i \in ContainingDomains(cfgDomains, question) : matched.d <= i

\* C5 amended: the record match returns comes from the first domain in
\* configuration order whose name is contained in the query name and which
\* holds a record answering the query; such a domain wins over every later
\* containing domain, and match fails only if no containing domain has one.
C5_FirstAnsweringDomain ==
    Asked =>
        /\ matched # NotMatched =>
              /\ matched.d \in ContainingDomains(cfgDomains, question)
              /\ SpecAnswers(cfgDomains, matched, question)
              /\ \A p0 \in Places(cfgDomains) :
                     p0.d < matched.d => ~SpecAnswers(cfgDomains, p0, question)
        /\ matched = NotMatched =>
              \A p0 \in Places(cfgDomains) : ~SpecAnswers(cfgDomains, p0, question)

\* both domains contain the query name and hold a record answering it, and
\* the first one wins
C5_Witness ==
    /\ Asked
    /\ matched # NotMatched
    /\ matched.d = 1
    /\ ContainingDomains(cfgDomains, question) = {1, 2}
    /\ \E p \in Places(cfgDomains) : p.d = 2 /\ SpecAnswers(cfgDomains, p, question)

(***************************************************************************)
(* Claims about the serving path of handler.go.                            *)
(***************************************************************************)
\* the questions of a call that are fully handled
Handled(w) == 1..(IF pc[w] = "idle" THEN 0 ELSE qi[w] - 1)

\* C1: for every question, a record returned by the zone matcher makes the
\* answer set of that question exactly the synthesizer's output for the record,
\* without the forwarder being called; the forwarder is called only when the
\* matcher reports no match.
C1_LocalMatchShortCircuits ==
    \A w \in Workers : \A i \in Handled(w) :
        LET e == qlog[w][i]
        IN  /\ e.matched =>
                /\ ~e.forwarded
                /\ e.local \o e.got
                       = Synthesize(RecordAt(cfgDomains, Match(cfgDomains, e.q)), e.q)
            /\ e.forwarded => ~e.matched

\* what the claim counts as a failed exchange
Failure(t) == t.err \/ t.ans = <<>>

\* C8: the forwarder tries the upstreams in order and stops at the first one
\* that returns at least one answer record (a timeout, a transport error and an
\* empty answer all being failures): the answer returned is that upstream's and
\* it is stored in the cache; it returns empty only after every upstream failed.
C8_FailoverToFirstAnswer ==
    \A w \in Workers : \A i \in Handled(w) :
        LET e == qlog[w][i]
            n == Len(e.tried)
        IN  (e.forwarded /\ ~e.present) =>
                /\ \A j \in 1..n : e.tried[j].srv = cfgServers[j]
                /\ \A j \in 1..(n - 1) : Failure(e.tried[j])
                /\ IF n > 0 /\ ~Failure(e.tried[n])
                   THEN e.got = e.tried[n].ans /\ e.stored
                   ELSE n = Len(cfgServers) /\ e.got = <<>>

\* an entry that has not reached T + t is still in the cache after the step
FreshKept ==
    \A k \in DOMAIN cache :
        clock' < cache[k].at + cache[k].value[1].Ttl * TicksPerSecond
            => /\ k \in DOMAIN cache'
               /\ cache'[k] # cache[k] => cache'[k].at >= cache[k].at

\* no entry outlives a completed sweep that began after its T + t
SweptGone ==
    \A k \in DOMAIN cache :
        ~( /\ swPc = "sleep"
           /\ swStart > cache[k].at + cache[k].value[1].Ttl * TicksPerSecond )

\* C6: an answer stored with TTL t at time T stays readable, unchanged but for
\* a later store of the key, at every time before T + t; and once an eviction
\* sweep that began after T + t has completed, with no store of the key since,
\* a read of the key misses.
C6_CacheRoundTrip == [][FreshKept /\ SweptGone']_vars

\* the key a call is about to look up, or is resolving
CurrentKey(w) == CacheKey(msg[w][qi[w]])

\* a key of a question the zone does not answer
ForwardedKey(k) == Match(cfgDomains, Question(k[1], k[2])) = NotMatched

\* a step in which a call that found the key in the cache finishes the question
\* with the stored sequence, without an exchange and without touching the cache
HitServesStored ==
    \A w \in Workers :
        ( /\ pc[w] = "question"
          /\ Len(qlog'[w]) > Len(qlog[w])
          /\ ForwardedKey(CurrentKey(w))
          /\ CurrentKey(w) \in DOMAIN cache )
        => /\ pc'[w] # "exchange"
           /\ qlog'[w][qi[w]].tried = <<>>
           /\ qlog'[w][qi[w]].got = cache[CurrentKey(w)].value
           /\ answer'[w] = answer[w] \o qlog'[w][qi[w]].local \o cache[CurrentKey(w)].value
           /\ cache' = cache

\* the sequence under a key changes, while the key stays, only when a forward
\* for that key which had missed the cache stores its upstream's answer
OverwriteOnlyByMissedForward ==
    \A k \in DOMAIN cache \cap DOMAIN cache' :
        (ForwardedKey(k) /\ cache'[k].value # cache[k].value) =>
            \E w \in Workers :
                /\ pc[w] = "exchange"
                /\ CurrentKey(w) = k
                /\ ~qlog[w][qi[w]].present
                /\ qlog'[w][qi[w]].stored
                /\ cache'[k].value = qlog'[w][qi[w]].got

\* C7 as claimed: every query made while the cache entry exists is served from
\* it without an upstream exchange, and the sequence such queries are served
\* stays the same for as long as the entry exists.
C7_RepeatedQueriesIdentical ==
    [][ /\ HitServesStored
        /\ \A k \in DOMAIN cache \cap DOMAIN cache' :
               ForwardedKey(k) => cache'[k].value = cache[k].value ]_vars

\* C7 amended: every query made while the cache entry exists returns exactly
\* the sequence stored at that moment and causes no upstream exchange; the
\* stored sequence changes during the entry's life only when a concurrent
\* forward of the same key, which had missed the cache before the entry
\* existed, stores its own upstream answer (the last write wins).
C7_RepeatedQueriesServedFromCache ==
    [][HitServesStored /\ OverwriteOnlyByMissedForward]_vars

\* a forwarded question (no zone match) has been served from the cache
C7_Witness ==
    \E w \in Workers :
        /\ pc[w] = "write"
        /\ ~qlog[w][1].matched
        /\ qlog[w][1].present
        /\ qlog[w][1].got # <<>>

(***************************************************************************)
(* Claims about the upstream pool.                                         *)
(***************************************************************************)
\* every server at or past the removal threshold is outside h.upstream
Demoted == \A s \in DOMAIN failed : failed[s] >= RemoveThreshold => s \notin upstream

\* the server the watch loop is at
Probed == IF wi > 0 THEN cfgServers[wi] ELSE ""

\* C9: in every reachable state a server whose consecutive probe failures have
\* reached the removal threshold (5) is not in h.upstream, the set resolve
\* ranges over; such a server comes back only by a probe of it that succeeds
\* (which resets its count); and a server leaves h.upstream only in a step
\* that brings its count to the threshold or beyond.
C9_HealthDemotion ==
    [][ /\ Demoted
        /\ Demoted'
        /\ \A s \in DOMAIN failed :
               /\ (s \notin upstream /\ s \in upstream')
                      => (Probed = s /\ failed'[s] = 0)
               /\ (failed[s] >= RemoveThreshold /\ failed'[s] < failed[s])
                      => (Probed = s /\ failed'[s] = 0 /\ s \in upstream')
               /\ (s \in upstream /\ s \notin upstream')
                      => (failed'[s] >= RemoveThreshold /\ failed[s] < RemoveThreshold) ]_vars

\* a server that was in h.upstream has been taken out at the threshold while
\* the other one is still in
C9_Witness ==
    \E s \in demoted :
        /\ failed[s] >= RemoveThreshold
        /\ s \notin upstream
        /\ upstream # {}

\* C10: no cache entry holds answers synthesized from a zone match; entries
\* are created only from a forwarded upstream answer.
C10_OnlyForwardedAnswersCached ==
    \A k \in DOMAIN cache : cache[k].src = "forward"

(***************************************************************************)
(* Claims about failures, ordering and resources of the serving path.      *)
(***************************************************************************)
\* the call has handled every question of its message
AllHandled(w) == pc[w] # "idle" /\ Handled(w) = 1..Len(msg[w])

\* C11: when every upstream the forwarder tried for a question failed (by an
\* error or by an empty answer), the forwarder returns the empty sequence and
\* stores nothing; and the call still goes on to write its reply once all
\* questions are handled.
C11_AllFailedReturnsEmpty ==
    \A w \in Workers :
        /\ \A i \in Handled(w) :
               LET e == qlog[w][i]
               IN  ( /\ e.forwarded
                     /\ ~e.present
                     /\ \A j \in 1..Len(e.tried) : Failure(e.tried[j]) )
                   => (e.got = <<>> /\ ~e.stored)
        /\ AllHandled(w) => (pc[w] = "write" /\ ENABLED WriteMsg(w))

\* both configured servers answered a forwarded question with an error and the
\* call is about to write its reply
C11_Witness ==
    \E w \in Workers :
        /\ pc[w] = "write"
        /\ qlog[w][1].forwarded
        /\ Len(qlog[w][1].tried) = Len(cfgServers)
        /\ \A j \in 1..Len(cfgServers) : qlog[w][1].tried[j].err
        /\ answer[w] = <<>>

\* the place of a server in h.cfg.Servers
ConfigIndex(s) == CHOOSE i \in 1..Len(cfgServers) : cfgServers[i] = s

\* C12: the forwarder visits the alive servers in configuration order: each
\* server its Range visits is configured earlier than every alive server it
\* has still to visit, so of two alive servers that could both answer, the one
\* configured earlier is tried first and its answer is the one returned.
C12_ConfigurationOrder ==
    [][ \A w \in Workers :
            (pc'[w] = "exchange" /\ rkeys'[w] # rkeys[w])
            => \A s \in rkeys'[w].rest \cap upstream :
                   ConfigIndex(rkeys'[w].cur) < ConfigIndex(s) ]_vars

\* the entry's expiry second has been reached
ExpiresAtPassed(item) == Unix(clock) >= item.expire

\* C13: the eviction sweep deletes an entry only if that entry's expiry time
\* has passed, also when a store of the same key runs concurrently with the
\* sweep: no step removes from the cache an entry that has not yet expired.
C13_SweepDeletesOnlyExpired ==
    [][ \A k \in DOMAIN cache :
            k \notin DOMAIN cache' => ExpiresAtPassed(cache[k]) ]_vars

(***************************************************************************)
(* Claims about the watch loop.                                            *)
(***************************************************************************)
ServerSet == {ServeServers[i] : i \in 1..Len(ServeServers)}

\* C14: a server whose consecutive failures exceed the skip threshold (more
\* than 20) is still retried: while the watch loop keeps running, such a
\* server is eventually probed again, which either resets its failure count
\* or raises it.
C14_DeadServerRetried ==
    \A s \in ServerSet :
        (failed[s] = DeadThreshold + 1) ~> (failed[s] # DeadThreshold + 1)

(***************************************************************************)
(* Claims about the synthesizer.                                           *)
(***************************************************************************)
\* C15: when the record match returns is an A or AAAA record whose value is
\* not a parsable IP address, no record is emitted for the question.
C15_UnparsableAddressEmitsNothing ==
    (Asked /\ matched # NotMatched) =>
        LET r == RecordAt(cfgDomains, matched)
        IN  (r.Type \in {"A", "AAAA"} /\ ParseIP(r.Value) = NilIP) => localAns = <<>>

(***************************************************************************)
(* Claims about the client pool.                                           *)
(***************************************************************************)
\* the calls that are inside resolve, between its pool.Get and its return
InResolve == {w \in Workers : pc[w] = "exchange"}

\* C16: every client a forward attempt takes from the pool is put back on
\* every path, so the clients out of the pool are at most those of the calls
\* still inside resolve: the number does not grow with completed queries.
C16_ClientsReleased == held <= Cardinality(InResolve)

(***************************************************************************)
(* Claims about who writes the health state.                               *)
(***************************************************************************)
\* a step of some ServeDNS call
ServingStep == pc' # pc \/ qlog' # qlog \/ rkeys' # rkeys

\* C17: a forward attempt, whatever its exchanges return, leaves every
\* server's failure count and the membership of the alive set unchanged; a
\* step that changes either of them is a probe of the watch loop.
C17_ForwarderLeavesHealthAlone ==
    [][ /\ ServingStep => (upstream' = upstream /\ failed' = failed)
        /\ (upstream' # upstream \/ failed' # failed)
               => (wi > 0 /\ wi' # wi /\ ~ServingStep) ]_vars

\* an exchange of the forwarder with an alive server has ended in an error and
\* that server is still alive with no failure counted
C17_Witness ==
    \E w \in Workers : \E i \in 1..Len(qlog[w]) : \E j \in 1..Len(qlog[w][i].tried) :
        /\ qlog[w][i].tried[j].err
        /\ qlog[w][i].tried[j].srv \in upstream
        /\ failed[qlog[w][i].tried[j].srv] = 0

(***************************************************************************)
(* Claims about messages of several questions.                             *)
(***************************************************************************)
\* the answer set of one question: what handleLocal added, then what resolve
\* or the cache gave
AnswerSet(e) == e.local \o e.got

RECURSIVE Concatenation(_)
Concatenation(log) ==
    IF log = <<>> THEN <<>> ELSE AnswerSet(Head(log)) \o Concatenation(Tail(log))

\* C18: within one message the reply's answer section is the concatenation of
\* the answer sets of its questions in question order, and a question that
\* yields no answer or meets an error does not stop the later ones: when the
\* reply is written every question of the message has been handled, in order.
C18_AnswersInQuestionOrder ==
    \A w \in Workers :
        pc[w] # "idle" =>
            /\ answer[w] = Concatenation(qlog[w])
            /\ Len(qlog[w]) <= Len(msg[w])
            /\ \A i \in 1..Len(qlog[w]) : qlog[w][i].q = msg[w][i]
            /\ pc[w] = "write" => Len(qlog[w]) = Len(msg[w])

\* a message of two questions is about to be answered: the first question
\* met only errors and yielded nothing, the second one was still answered
C18_Witness ==
    \E w \in Workers :
        /\ pc[w] = "write"
        /\ Len(msg[w]) = 2
        /\ AnswerSet(qlog[w][1]) = <<>>
        /\ qlog[w][1].tried # <<>>
        /\ \A j \in 1..Len(qlog[w][1].tried) : qlog[w][1].tried[j].err
        /\ AnswerSet(qlog[w][2]) # <<>>
        /\ answer[w] = AnswerSet(qlog[w][2])

(***************************************************************************)
(* Claims about what the cache holds.                                      *)
(***************************************************************************)
\* C19: every entry of the cache holds a non-empty answer sequence, an empty
\* result never being stored; so a question served from the cache gets at
\* least one record.
C19_CacheEntriesNonEmpty ==
    /\ \A k \in DOMAIN cache : Len(cache[k].value) > 0
    /\ \A w \in Workers : \A i \in Handled(w) :
           /\ qlog[w][i].present => Len(qlog[w][i].got) > 0
           /\ qlog[w][i].stored => Len(AnswerSet(qlog[w][i])) > 0

\* an upstream replied to a forwarded question with an empty answer section
\* and nothing was stored under the question's key
C19_Witness ==
    \E w \in Workers :
        /\ pc[w] = "write"
        /\ qlog[w][1].forwarded
        /\ ~qlog[w][1].present
        /\ qlog[w][1].tried # <<>>
        /\ ~qlog[w][1].tried[Len(qlog[w][1].tried)].err
        /\ qlog[w][1].got = <<>>
        /\ CacheKey(qlog[w][1].q) \notin DOMAIN cache

\* C20: a server is in the alive set only if a probe of it has succeeded: the
\* set starts empty and a server enters it only in a step of the watch loop
\* that is a successful probe of that server; the forwarder exchanges only
\* with servers of the set, so a forward made while no probe has yet succeeded
\* contacts no upstream and returns the empty sequence.
C20_AliveOnlyAfterSuccessfulProbe ==
    /\ upstream = {}
    /\ [][ /\ \A s \in DOMAIN failed :
                  (s \notin upstream /\ s \in upstream')
                      => (Probed = s /\ failed'[s] = 0 /\ ~ServingStep)
           /\ \A w \in Workers :
                  /\ (pc'[w] = "exchange" /\ rkeys'[w] # rkeys[w])
                         => rkeys'[w].cur \in upstream
                  /\ ( /\ pc[w] = "question"
                       /\ Len(qlog'[w]) > Len(qlog[w])
                       /\ qlog'[w][qi[w]].forwarded
                       /\ upstream = {} )
                     => /\ pc'[w] # "exchange"
                        /\ qlog'[w][qi[w]].tried = <<>>
                        /\ qlog'[w][qi[w]].got = <<>>
                        /\ answer'[w] = answer[w] ]_vars

\* both servers have been probed without success, and a question forwarded in
\* that state has been handled without any exchange
C20_Witness ==
    \E w \in Workers :
        /\ pc[w] = "write"
        /\ qlog[w][1].forwarded
        /\ qlog[w][1].tried = <<>>
        /\ qlog[w][1].got = <<>>
        /\ upstream = {}
        /\ demoted = {}
        /\ \A s \in DOMAIN failed : failed[s] > 0

====
